---- MODULE Spec2Model ----
(***************************************************************************)
(* Galvo beam-positioning control of dwzs/laser_killer.                    *)
(*                                                                         *)
(* Units.  Voltages are integers in decivolts (1 = 0.1 V), so the range    *)
(* 0.0 V .. 4.8 V of the source is 0 .. 48 and the centre 2.4 V is 24.     *)
(* Physical coordinates are integers in millimetres.  The float product    *)
(* voltage * 819.2 of the source is (decivolts * 4096) / 50; int() of a    *)
(* non-negative float is the floor, which is \div here.                    *)
(*                                                                         *)
(* One program runs per behaviour (variable prog):                         *)
(*   "driver"      a client of GalvoDriver (galvo_driver.py)               *)
(*   "controller"  a client of GalvoController (galvo_controller.py)       *)
(*   "calib"       a client of GalvoController (calib/galvo.py)            *)
(*   "csi"         RedTrackerCSI.run (sense/stereo_imx219/follow_red.py)   *)
(*   "usb"         RedTracker.run (sense/stereo_usb/follow_red.py)         *)
(*   "depth_usb"   DepthCalculator.run (sense/stereo_usb/calib)            *)
(*   "depth_csi"   DepthCalculator.run (sense/stereo_imx219/calib)         *)
(*   "keyboard"    KeyboardControl.run (galvo_control_keyboard.py)         *)
(*   "clip"        a ClipSaver fed by the main loop of                     *)
(*                 sense_test/follow_moving_mosquitos.py                   *)
(***************************************************************************)
EXTENDS Integers, Sequences, FiniteSets, TLC

VARIABLES
    prog,            \* the program that runs in this behaviour
    pc,              \* position of the program
    op,              \* the public operation in progress, or the last one
    result,          \* its outcome
    record,          \* the calibration record on disk (affine_params.json)
    affine_loaded,   \* GalvoController.affine_loaded
    affine_matrix,   \* GalvoController.affine_matrix
    affine_offset,   \* GalvoController.affine_offset
    inverse_matrix,  \* GalvoController.inverse_matrix
    current_xv,      \* stored relative signal of the X axis
    current_yv,      \* stored relative signal of the Y axis
    req,             \* arguments of the operation in progress
    old,             \* <<current_xv, current_yv>> when the operation began
    xv,              \* local xv of set_voltage / voltage_x of set_position
    yv,              \* local yv of set_voltage / voltage_y of set_position
    voltage_a,       \* absolute voltage handed to the first DAC write
    voltage_b,       \* absolute voltage handed to the second DAC write
    dyv,             \* <<dyv>> while move_dir still owes its move_y, else <<>>
    dac,             \* code latched by the hardware on each channel
    xfers,           \* spi.xfer2 transfers of the current set_voltage call
    notices,         \* clamp warnings printed by the operation in progress
    iter,            \* servo-loop iterations begun
    left_pt,         \* detection in the left image, this iteration
    right_pt,        \* detection in the right image, this iteration
    target,          \* physical target handed to move_to_physical
    fail_iter,       \* iteration in which a bus write failed (0: none)
    Q,               \* the reprojection matrix loaded from stereo_params.json
    target_3d,       \* triangulated point of this iteration, or None
    key,             \* the key cv2.waitKey returned last
    polls,           \* calls of cv2.waitKey made by the loop
    nsent,           \* frames transferred by the operation in progress
    position,        \* value returned by get_physical_position, or None
    saver,           \* the ClipSaver object: pre, post_n, writer, post_left,
                     \* clip_idx (and maxlen of the deque pre), or None
    clips,           \* the clip files released so far, in order
    pushed           \* the detected flag of every frame pushed so far

vars == <<prog, pc, op, result, record, affine_loaded, affine_matrix,
          affine_offset, inverse_matrix, current_xv, current_yv, req, old,
          xv, yv, voltage_a, voltage_b, dyv, dac, xfers, notices, iter,
          left_pt, right_pt, target, fail_iter, Q, target_3d, key, polls,
          nsent, position, saver, clips, pushed>>

(***************************************************************************)
(* Bounds of the model.                                                    *)
(***************************************************************************)
\* largest magnitude of a relative request, in decivolts (beyond +-2.4 V)
MaxReq == 36
\* the driver grid reaches from -VUnder to v_max + VOver decivolts, and 10 V
VUnder == 12
VOver == 3
\* servo-loop iterations modelled
MaxIter == 2
\* largest pre_n and post_n a ClipSaver is constructed with
MaxPre == 2
MaxPost == 2
\* frames pushed to a ClipSaver
MaxFrames == 5

(***************************************************************************)
(* Program constants.                                                      *)
(***************************************************************************)
v_min == 0
v_max == 48
v_center == (v_min + v_max) \div 2
direction_x == -1
direction_y == 1
\* 819.2 = 4096 / 5 codes per volt = DacScaleNum / DacScaleDen per decivolt
DacScaleNum == 4096
DacScaleDen == 50
channel_a == <<0, 0, 1, 1>>
channel_b == <<1, 0, 1, 1>>
xv_min == v_min - v_center
xv_max == v_max - v_center
yv_min == v_min - v_center
yv_max == v_max - v_center
calibration_depth == 1000
offset_x == 100
offset_y == 50
usb_offset_x == 27
usb_offset_y == -3

\* Python's None, and every empty value the code tests for truth
None == <<>>
\* a DAC channel that was never written
NoCode == 0 - 1

Min2(a, b) == IF b < a THEN b ELSE a
Max2(a, b) == IF b > a THEN b ELSE a

(***************************************************************************)
(* Protocol encoder.                                                       *)
(***************************************************************************)
RECURSIVE bin(_)
\* bin(n)[2:] of Python for n >= 0: binary digits, most significant first
bin(n) == IF n < 2 THEN <<n>> ELSE bin(n \div 2) \o <<n % 2>>

RECURSIVE zfill(_, _)
zfill(s, w) == IF Len(s) >= w THEN s ELSE zfill(<<0>> \o s, w)

RECURSIVE int2(_)
\* int(s, 2) of Python for a non-empty digit string
int2(s) == IF Len(s) = 0 THEN 0
           ELSE 2 * int2(SubSeq(s, 1, Len(s) - 1)) + s[Len(s)]

\* mutants of the encoder
voltage_to_dac_wrap(voltage) == ((voltage * DacScaleNum) \div DacScaleDen) % 4096
voltage_to_dac_noupper(voltage) ==
    (Max2(v_min, voltage) * DacScaleNum) \div DacScaleDen
voltage_to_dac_round(voltage) ==
    (2 * Max2(v_min, Min2(v_max, voltage)) * DacScaleNum + DacScaleDen)
        \div (2 * DacScaleDen)

\* GalvoDriver.voltage_to_dac
voltage_to_dac(voltage) ==
    (Max2(v_min, Min2(v_max, voltage)) * DacScaleNum) \div DacScaleDen

\* GalvoController.voltage_to_dac of calib/galvo.py
calib_voltage_to_dac(voltage) ==
    (Max2(v_min, Min2(v_max, voltage)) * DacScaleNum) \div DacScaleDen

\* mutant: the two bytes of the word in the other order
Frame_lsb_first(channel, dac_code) ==
    LET voltage_bin == zfill(bin(dac_code), 12)
        data == channel \o voltage_bin
    IN  <<int2(SubSeq(data, 9, Len(data))), int2(SubSeq(data, 1, 8))>>

\* the two bytes handed to spi.xfer2 for a channel selector and a code
Frame(channel, dac_code) ==
    LET voltage_bin == zfill(bin(dac_code), 12)
        data == channel \o voltage_bin
    IN  <<int2(SubSeq(data, 1, 8)), int2(SubSeq(data, 9, Len(data)))>>

\* GalvoDriver.write_dac: the transfer it issues
write_dac(channel, voltage) == Frame(channel, voltage_to_dac(voltage))

\* GalvoController.dac_write of calib/galvo.py: the transfer it issues
dac_write(channel, voltage) == Frame(channel, calib_voltage_to_dac(voltage))

\* mutant: the two writes of one call in the other order
write_order_swapped == <<channel_b, channel_a>>

\* the order of the two writes of GalvoDriver.set_voltage / set_position
write_order == <<channel_a, channel_b>>

\* the voltage set_voltage hands to write_dac for a channel
VoltOf(channel, va, vb) == IF channel = channel_a THEN va ELSE vb

\* mutant: every frame loads both outputs of the DAC
Latch_both(d, frame) ==
    [A |-> (frame[1] % 16) * 256 + frame[2],
     B |-> (frame[1] % 16) * 256 + frame[2]]

\* the DAC as the frames address it: bit 15 of the 16-bit word selects the
\* output (0: A, 1: B) and the low 12 bits are the code it latches
Latch(d, frame) ==
    LET code == (frame[1] % 16) * 256 + frame[2]
    IN  IF frame[1] \div 128 = 0 THEN [d EXCEPT !.A = code]
                                 ELSE [d EXCEPT !.B = code]

(***************************************************************************)
(* Calibration records and the affine transform.                           *)
(***************************************************************************)
Rec(a, b, c, d, e, f) ==
    [present |-> TRUE, a |-> a, b |-> b, c |-> c, d |-> d, e |-> e, f |-> f]

\* no readable affine_params.json
Missing ==
    [present |-> FALSE, a |-> 0, b |-> 0, c |-> 0, d |-> 0, e |-> 0, f |-> 0]

\* what calculate_affine returns, <<params_x, params_y>>: three fits with an
\* integer inverse (one with b # d, one with a # e) and a singular one
Fits == { <<<<1, 0, 100>>, <<0, 1, 50>>>>, <<<<2, 1, 100>>, <<1, 1, 50>>>>,
          <<<<1, 1, 100>>, <<0, 1, 50>>>>, <<<<1, 2, 100>>, <<2, 4, 50>>>> }

\* cacu_affine_para.py: the record written for a fit
affine_params(params_x, params_y) ==
    Rec(params_x[1], params_x[2], params_x[3],
        params_y[1], params_y[2], params_y[3])

\* records the model draws from: the record of every fit, and no record
Records == { affine_params(fit[1], fit[2]) : fit \in Fits } \cup { Missing }

Det(m) == m[1][1] * m[2][2] - m[1][2] * m[2][1]

\* np.linalg.inv of an integer matrix of determinant +1 or -1
Inv(m) == LET dt == Det(m)
          IN  << <<m[2][2] * dt, (0 - m[1][2]) * dt>>,
                 <<(0 - m[2][1]) * dt, m[1][1] * dt>> >>

MatVec(m, v) == << m[1][1] * v[1] + m[1][2] * v[2],
                   m[2][1] * v[1] + m[2][2] * v[2] >>

\* mutants of the record loader
LoadAffine_nocheck(r) ==
    IF ~r.present
    THEN [loaded |-> TRUE, matrix |-> <<<<1, 0>>, <<0, 1>>>>,
          offset |-> <<0, 0>>, inverse |-> <<<<1, 0>>, <<0, 1>>>>]
    ELSE [loaded |-> TRUE, matrix |-> <<<<r.a, r.b>>, <<r.d, r.e>>>>,
          offset |-> <<r.c, r.f>>,
          inverse |-> <<<<1, 0>>, <<0, 1>>>>]

LoadAffine_transposed(r) ==
    IF ~r.present
    THEN [loaded |-> FALSE, matrix |-> None, offset |-> None, inverse |-> None]
    ELSE LET m == <<<<r.a, r.d>>, <<r.b, r.e>>>>
         IN  IF Det(m) = 0
             THEN [loaded |-> FALSE, matrix |-> m, offset |-> <<r.c, r.f>>,
                   inverse |-> None]
             ELSE [loaded |-> TRUE, matrix |-> m, offset |-> <<r.c, r.f>>,
                   inverse |-> Inv(m)]

\* GalvoController.__init__, the try block: what loading the record leaves
LoadAffine(r) ==
    IF ~r.present
    THEN [loaded |-> FALSE, matrix |-> None, offset |-> None, inverse |-> None]
    ELSE LET m == <<<<r.a, r.b>>, <<r.d, r.e>>>>
         IN  IF Det(m) = 0
             THEN [loaded |-> FALSE, matrix |-> m, offset |-> <<r.c, r.f>>,
                   inverse |-> None]
             ELSE [loaded |-> TRUE, matrix |-> m, offset |-> <<r.c, r.f>>,
                   inverse |-> Inv(m)]

\* mutants of the clamp of set_voltage
ClampRel_noupper(v) == Max2(v_min - v_center, v)
ClampRel_none(v) == v

\* mutant: a request outside the range is pulled in by one step only
ClampRel_step(v) ==
    IF v > v_max - v_center THEN v - 1
    ELSE IF v < v_min - v_center THEN v + 1 ELSE v

\* GalvoController.set_voltage, the clamp of one axis
ClampRel(v) == Max2(v_min - v_center, Min2(v_max - v_center, v))

(***************************************************************************)
(* Inputs the model draws from.                                            *)
(***************************************************************************)
Programs == {"driver", "controller", "calib", "csi", "usb", "depth_usb",
             "depth_csi", "keyboard", "clip"}
\* the two depth tools: DepthCalculator.run of calib/cacul_depth.py
DepthProgs == {"depth_usb", "depth_csi"}
ControllerProgs == {"controller", "csi", "usb", "keyboard"}

\* relative requests: below, at and inside the range, at its top and above
ReqVolts == {0 - MaxReq, 0 - 7, 0, xv_max, MaxReq}

\* arguments of set_position of calib/galvo.py: the centre, and 3.6 V, which
\* is above the range and a multiple of the steps below
CalibReq == {0, 36}

\* steps of move_x / move_y / move_dir: 12 + 12 reaches the limit exactly,
\* and -36 leaves the range from every position
Steps == {0 - 36, 12}

\* absolute voltages handed to the driver directly: -1 V and just below 0,
\* the bottom, the middle and the top of the range, just above it, and 10 V
DriverVolts == {0 - VUnder, 0 - 10, 0 - 1, 0, 1, 2, 24, 25, 26, 47, v_max,
                v_max + 1, v_max + VOver, 100}

\* a reprojection matrix of stereo_params.json: principal point (320, 240),
\* focal length 500 px, baseline 4 mm, scaled by the baseline so that every
\* entry is an integer (Q is homogeneous)
Q_std == << <<4, 0, 0, 0 - 1280>>,
            <<0, 4, 0, 0 - 960>>,
            <<0, 0, 0, 2000>>,
            <<0, 0, 1, 0>> >>

\* the same rig calibrated with the translation Tx of the other sign (the
\* two cameras in the other order): Q[3][2] = -1/Tx changes sign, and a
\* positive disparity reprojects to a negative depth
Q_rev == << <<4, 0, 0, 0 - 1280>>,
            <<0, 4, 0, 0 - 960>>,
            <<0, 0, 0, 2000>>,
            <<0, 0, 0 - 1, 0>> >>

\* the stereo_params.json files the model draws from
StereoParams == {Q_std, Q_rev}

\* keys cv2.waitKey returns: quit, toggle the display, anything else
Keys == {"q", "d", "other"}

\* physical targets of move_to_physical
PhysPts == {<<100, 50>>, <<110, 45>>, <<160, 50>>, <<60, 90>>}

(***************************************************************************)
(* The state after process start: nothing constructed, nothing written.    *)
(***************************************************************************)
Init ==
    /\ prog \in Programs
    /\ record \in CASE prog = "keyboard" -> {Missing, Rec(1, 0, 100, 0, 1, 50)}
                   [] prog \in ControllerProgs -> Records
                   [] OTHER -> {Missing}
    /\ pc = "new"
    /\ op = "none"
    /\ result = "none"
    /\ affine_loaded = FALSE
    /\ affine_matrix = None
    /\ affine_offset = None
    /\ inverse_matrix = None
    /\ current_xv = 0
    /\ current_yv = 0
    /\ req = <<>>
    /\ old = <<0, 0>>
    /\ xv = 0
    /\ yv = 0
    /\ voltage_a = 0
    /\ voltage_b = 0
    /\ dyv = <<>>
    /\ dac = [A |-> NoCode, B |-> NoCode]
    /\ xfers = <<>>
    /\ notices = 0
    /\ iter = 0
    /\ left_pt = None
    /\ right_pt = None
    /\ target = None
    /\ fail_iter = 0
    /\ Q \in IF prog \in {"csi", "usb"} \cup DepthProgs THEN StereoParams
              ELSE {Q_std}
    /\ target_3d = None
    /\ key = "none"
    /\ polls = 0
    /\ nsent = 0
    /\ position = None
    /\ saver = None
    /\ clips = <<>>
    /\ pushed = <<>>

clipVars == <<saver, clips, pushed>>
calibVars == <<record, affine_loaded, affine_matrix, affine_offset,
               inverse_matrix>>
axisVars == <<current_xv, current_yv>>
passVars == <<iter, left_pt, right_pt, target, target_3d>>
servoVars == <<iter, left_pt, right_pt, target, target_3d, key, polls>>
localVars == <<xv, yv, voltage_a, voltage_b>>

(***************************************************************************)
(* Entering and leaving a public operation.                                *)
(***************************************************************************)
\* a public operation o with arguments r begins
Begin(o, r) ==
    /\ op' = o
    /\ req' = r
    /\ old' = <<current_xv, current_yv>>
    /\ nsent' = 0
    /\ position' = None

\* mutant: a pass that moved goes on to the next pass without the key poll
AfterReturn_nopoll(o) ==
    CASE o = "close" -> "closed"
      [] OTHER -> "ready"

\* mutant: a pass that moved the actuator ends the loop
AfterReturn_endloop(o) ==
    CASE o \in {"close", "servo"} -> "closed"
      [] OTHER -> "ready"

\* where the program continues when operation o returns normally
AfterReturn(o) ==
    CASE o = "close" -> "closed"
      [] o = "servo" -> "waitkey"
      [] OTHER -> "ready"

\* where the program continues when a bus write raises inside operation o:
\* the constructor and close let it escape, the servo loops catch it, the
\* keyboard loop leaves through its finally clause, and a client of the API
\* is handed the exception and keeps the object
AfterRaise(o) ==
    CASE o = "init" -> "crashed"
      [] o = "close" -> "crashed"
      [] o = "servo" -> "waitkey"
      [] o \in {"set_voltage", "center"} /\ prog = "keyboard" -> "finally"
      [] OTHER -> "ready"

\* GalvoController.set_voltage up to the call of the driver: clamp, convert
set_voltage(x, y) ==
    /\ xv' = ClampRel(x)
    /\ yv' = ClampRel(y)
    /\ voltage_a' = v_center + ClampRel(x) * direction_x
    /\ voltage_b' = v_center + ClampRel(y) * direction_y
    /\ xfers' = <<>>
    /\ pc' = "write_x"

\* GalvoController.set_position of calib/galvo.py up to its first write
set_position(voltage_x, voltage_y) ==
    /\ xv' = voltage_x
    /\ yv' = voltage_y
    /\ voltage_a' = v_center + voltage_x * direction_x
    /\ voltage_b' = v_center + voltage_y * direction_y
    /\ xfers' = <<>>
    /\ pc' = "write_x"

(***************************************************************************)
(* GalvoDriver used directly.                                              *)
(***************************************************************************)
DriverConstruct ==
    /\ pc = "new"
    /\ prog = "driver"
    /\ op' = "init"
    /\ result' = "ok"
    /\ pc' = "ready"
    /\ UNCHANGED <<prog, Q, clipVars, calibVars, axisVars, req, old,
                   localVars, dyv, dac,
                   xfers, notices, servoVars, fail_iter, nsent, position>>

DriverSetVoltage(va, vb) ==
    /\ pc = "ready"
    /\ prog = "driver"
    /\ op' = "set_voltage"
    /\ req' = <<va, vb>>
    /\ result' = "running"
    /\ voltage_a' = va
    /\ voltage_b' = vb
    /\ xfers' = <<>>
    /\ nsent' = 0
    /\ pc' = "write_x"
    /\ UNCHANGED <<prog, Q, clipVars, calibVars, axisVars, old, xv, yv, dyv,
                   dac, notices,
                   servoVars, fail_iter, position>>

DriverClose ==
    /\ pc = "ready"
    /\ prog = "driver"
    /\ op' = "close"
    /\ result' = "ok"
    /\ pc' = "closed"
    /\ UNCHANGED <<prog, Q, clipVars, calibVars, axisVars, req, old,
                   localVars, dyv, dac,
                   xfers, notices, servoVars, fail_iter, nsent, position>>

(***************************************************************************)
(* The two bus writes of one set_voltage / set_position call.  spi.xfer2   *)
(* either transfers the frame or raises; nothing in the code catches it    *)
(* below the servo loops.                                                  *)
(***************************************************************************)
\* the frame the n-th write of the call in progress transfers
FrameOfWrite(n) ==
    LET ch == write_order[n]
        v == VoltOf(ch, voltage_a, voltage_b)
    IN  IF prog = "calib" THEN dac_write(ch, v) ELSE write_dac(ch, v)

\* spi.xfer2 raises inside the operation in progress
BusRaise ==
    /\ result' = "io_error"
    /\ pc' = AfterRaise(op)
    /\ fail_iter' = IF op = "servo" THEN iter ELSE fail_iter
    /\ dyv' = <<>>
    /\ UNCHANGED <<dac, xfers, axisVars, nsent>>

WriteX ==
    /\ pc = "write_x"
    /\ \E ok \in BOOLEAN :
          IF ok
          THEN /\ xfers' = Append(xfers, FrameOfWrite(1))
               /\ dac' = Latch(dac, FrameOfWrite(1))
               /\ nsent' = nsent + 1
               /\ pc' = "write_y"
               /\ UNCHANGED <<result, fail_iter, dyv, axisVars>>
          ELSE BusRaise
    /\ UNCHANGED <<prog, Q, clipVars, op, calibVars, req, old, localVars,
                   notices,
                   servoVars, position>>

WriteY ==
    /\ pc = "write_y"
    /\ \E ok \in BOOLEAN :
          IF ok
          THEN /\ xfers' = Append(xfers, FrameOfWrite(2))
               /\ dac' = Latch(dac, FrameOfWrite(2))
               /\ nsent' = nsent + 1
               /\ IF prog = "driver"
                  THEN UNCHANGED axisVars
                  ELSE current_xv' = xv /\ current_yv' = yv
               /\ IF dyv # <<>>
                  THEN pc' = "move_y" /\ UNCHANGED result
                  ELSE pc' = AfterReturn(op) /\ result' = "ok"
               /\ UNCHANGED <<fail_iter, dyv>>
          ELSE BusRaise
    /\ UNCHANGED <<prog, Q, clipVars, op, calibVars, req, old, localVars,
                   notices,
                   servoVars, position>>

(***************************************************************************)
(* GalvoController of galvo_controller.py, called by a client.             *)
(***************************************************************************)
\* mutant: centring leaves the Y axis one step above the middle
center_offset == set_voltage(0, 1)

\* GalvoController.center
center == set_voltage(0, 0)

\* mutant: the offset is not removed before the inverse matrix is applied
to_drive_nooffset(p) == MatVec(inverse_matrix, p)

\* the drive signal move_to_physical computes for a physical point
to_drive(p) ==
    MatVec(inverse_matrix, <<p[1] - affine_offset[1], p[2] - affine_offset[2]>>)

\* the physical point get_physical_position computes for a drive signal
to_physical(v) ==
    << MatVec(affine_matrix, v)[1] + affine_offset[1],
       MatVec(affine_matrix, v)[2] + affine_offset[2] >>

\* GalvoController.move_to_physical
move_to_physical(p) ==
    IF ~affine_loaded
    THEN /\ result' = "runtime_error"
         /\ pc' = AfterRaise(op')
         /\ xfers' = <<>>
         /\ UNCHANGED localVars
    ELSE /\ result' = "running"
         /\ set_voltage(to_drive(p)[1], to_drive(p)[2])

Construct ==
    /\ pc = "new"
    /\ prog \in ControllerProgs
    /\ affine_loaded' = LoadAffine(record).loaded
    /\ affine_matrix' = LoadAffine(record).matrix
    /\ affine_offset' = LoadAffine(record).offset
    /\ inverse_matrix' = LoadAffine(record).inverse
    /\ Begin("init", <<0, 0>>)
    /\ result' = "running"
    /\ notices' = 0
    /\ center
    /\ UNCHANGED <<prog, Q, clipVars, record, axisVars, dyv, dac, servoVars,
                   fail_iter>>

SetVoltage(x, y) ==
    /\ pc = "ready"
    /\ prog = "controller"
    /\ Begin("set_voltage", <<x, y>>)
    /\ result' = "running"
    /\ notices' = 0
    /\ set_voltage(x, y)
    /\ UNCHANGED <<prog, Q, clipVars, calibVars, axisVars, dyv, dac,
                   servoVars, fail_iter>>

Center ==
    /\ pc = "ready"
    /\ prog = "controller"
    /\ Begin("center", <<0, 0>>)
    /\ result' = "running"
    /\ notices' = 0
    /\ center
    /\ UNCHANGED <<prog, Q, clipVars, calibVars, axisVars, dyv, dac,
                   servoVars, fail_iter>>

MoveToPhysical(p) ==
    /\ pc = "ready"
    /\ prog = "controller"
    /\ Begin("move_to_physical", p)
    /\ notices' = 0
    /\ move_to_physical(p)
    /\ UNCHANGED <<prog, Q, clipVars, calibVars, axisVars, dyv, dac,
                   servoVars, fail_iter>>

\* mutant: get_physical_position answers whether or not a model was loaded
GetPhysicalPosition_nocheck ==
    /\ pc = "ready"
    /\ prog = "controller"
    /\ op' = "get_physical_position"
    /\ req' = <<>>
    /\ old' = <<current_xv, current_yv>>
    /\ notices' = 0
    /\ nsent' = 0
    /\ xfers' = <<>>
    /\ result' = "ok"
    /\ position' = IF affine_loaded THEN to_physical(<<current_xv, current_yv>>)
                   ELSE <<current_xv, current_yv>>
    /\ UNCHANGED <<prog, Q, clipVars, pc, calibVars, axisVars, localVars, dyv,
                   dac,
                   servoVars, fail_iter>>

\* GalvoController.get_physical_position: no bus traffic, a value returned
GetPhysicalPosition ==
    /\ pc = "ready"
    /\ prog = "controller"
    /\ op' = "get_physical_position"
    /\ req' = <<>>
    /\ old' = <<current_xv, current_yv>>
    /\ notices' = 0
    /\ nsent' = 0
    /\ xfers' = <<>>
    /\ IF ~affine_loaded
       THEN result' = "runtime_error" /\ position' = None
       ELSE result' = "ok" /\ position' = to_physical(<<current_xv, current_yv>>)
    /\ UNCHANGED <<prog, Q, clipVars, pc, calibVars, axisVars, localVars, dyv,
                   dac,
                   servoVars, fail_iter>>

\* GalvoController.close: centre, then close the bus
Close ==
    /\ pc = "ready"
    /\ prog = "controller"
    /\ Begin("close", <<0, 0>>)
    /\ result' = "running"
    /\ notices' = 0
    /\ center
    /\ UNCHANGED <<prog, Q, clipVars, calibVars, axisVars, dyv, dac,
                   servoVars, fail_iter>>

(***************************************************************************)
(* GalvoController of calib/galvo.py, called by a client.                  *)
(***************************************************************************)
\* mutant: the step is added and never clamped
move_clamp_none(cur, d, lo, hi) == [v |-> cur + d, warned |-> 0]

\* move_x / move_y: add the step, clamp, and warn once when it was clamped
move_clamp(cur, d, lo, hi) ==
    IF cur + d > hi THEN [v |-> hi, warned |-> 1]
    ELSE IF cur + d < lo THEN [v |-> lo, warned |-> 1]
    ELSE [v |-> cur + d, warned |-> 0]

\* GalvoController.center_position
center_position == set_position(0, 0)

CalibConstruct ==
    /\ pc = "new"
    /\ prog = "calib"
    /\ Begin("init", <<0, 0>>)
    /\ result' = "running"
    /\ notices' = 0
    /\ center_position
    /\ UNCHANGED <<prog, Q, clipVars, calibVars, axisVars, dyv, dac,
                   servoVars, fail_iter>>

CalibSetPosition(x, y) ==
    /\ pc = "ready"
    /\ prog = "calib"
    /\ Begin("set_position", <<x, y>>)
    /\ result' = "running"
    /\ notices' = 0
    /\ set_position(x, y)
    /\ UNCHANGED <<prog, Q, clipVars, calibVars, axisVars, dyv, dac,
                   servoVars, fail_iter>>

\* GalvoController.move_x, up to the first write of its set_position
move_x(dxv) ==
    /\ current_xv' = move_clamp(current_xv, dxv, xv_min, xv_max).v
    /\ set_position(move_clamp(current_xv, dxv, xv_min, xv_max).v, current_yv)
    /\ UNCHANGED current_yv

CalibMoveX(dxv) ==
    /\ pc = "ready"
    /\ prog = "calib"
    /\ Begin("move_x", <<dxv>>)
    /\ result' = "running"
    /\ notices' = move_clamp(current_xv, dxv, xv_min, xv_max).warned
    /\ move_x(dxv)
    /\ UNCHANGED <<prog, Q, clipVars, calibVars, dyv, dac, servoVars,
                   fail_iter>>

\* GalvoController.move_y, up to the first write of its set_position
move_y(d) ==
    /\ current_yv' = move_clamp(current_yv, d, yv_min, yv_max).v
    /\ set_position(current_xv, move_clamp(current_yv, d, yv_min, yv_max).v)
    /\ UNCHANGED current_xv

CalibMoveY(d) ==
    /\ pc = "ready"
    /\ prog = "calib"
    /\ Begin("move_y", <<d>>)
    /\ result' = "running"
    /\ notices' = move_clamp(current_yv, d, yv_min, yv_max).warned
    /\ move_y(d)
    /\ UNCHANGED <<prog, Q, clipVars, calibVars, dyv, dac, servoVars,
                   fail_iter>>

\* GalvoController.move_dir: move_x now, move_y once that has returned
CalibMoveDir(dxv, d) ==
    /\ pc = "ready"
    /\ prog = "calib"
    /\ Begin("move_dir", <<dxv, d>>)
    /\ result' = "running"
    /\ notices' = move_clamp(current_xv, dxv, xv_min, xv_max).warned
    /\ move_x(dxv)
    /\ dyv' = <<d>>
    /\ UNCHANGED <<prog, Q, clipVars, calibVars, dac, servoVars, fail_iter>>

\* the move_y of a move_dir whose move_x has returned
MoveDirY ==
    /\ pc = "move_y"
    /\ notices' = notices + move_clamp(current_yv, dyv[1], yv_min, yv_max).warned
    /\ move_y(dyv[1])
    /\ dyv' = <<>>
    /\ UNCHANGED <<prog, Q, clipVars, op, result, calibVars, req, old, dac,
                   servoVars,
                   fail_iter, nsent, position>>

CalibCenter ==
    /\ pc = "ready"
    /\ prog = "calib"
    /\ Begin("center", <<0, 0>>)
    /\ result' = "running"
    /\ notices' = 0
    /\ center_position
    /\ UNCHANGED <<prog, Q, clipVars, calibVars, axisVars, dyv, dac,
                   servoVars, fail_iter>>

\* CalibrationRecorder.close: center_position, then close the bus
CalibClose ==
    /\ pc = "ready"
    /\ prog = "calib"
    /\ Begin("close", <<0, 0>>)
    /\ result' = "running"
    /\ notices' = 0
    /\ center_position
    /\ UNCHANGED <<prog, Q, clipVars, calibVars, axisVars, dyv, dac,
                   servoVars, fail_iter>>

(***************************************************************************)
(* Stereo triangulation and the servo loops.                               *)
(***************************************************************************)
\* detections the external detector hands over; None: nothing found
LeftPts == {None, <<322, 238>>, <<340, 240>>}
RightPts == {None, <<320, 238>>, <<336, 240>>, <<338, 240>>, <<340, 240>>}

Row(m, i, v) == m[i][1] * v[1] + m[i][2] * v[2] + m[i][3] * v[3] + m[i][4] * v[4]

\* float division; exact on every value the model's inputs produce
Quot(n, d) == IF d < 0 THEN (0 - n) \div (0 - d) ELSE n \div d

\* mutants of the triangulation: the sign of the disparity is dropped
calculate_3d_abs(l, r) ==
    IF l = None \/ r = None THEN None
    ELSE LET disparity == IF l[1] < r[1] THEN r[1] - l[1] ELSE l[1] - r[1]
         IN  IF disparity = 0 THEN None
             ELSE LET v == <<l[1], l[2], disparity, 1>>
                  IN  << Quot(Row(Q, 1, v), Row(Q, 4, v)),
                         Quot(0 - Row(Q, 2, v), Row(Q, 4, v)),
                         Quot(Row(Q, 3, v), Row(Q, 4, v)) >>
calculate_3d_negdisp(l, r) ==
    IF l = None \/ r = None THEN None
    ELSE LET disparity == l[1] - r[1]
         IN  IF disparity = 0 THEN None
             ELSE LET v == <<l[1], l[2], disparity, 1>>
                  IN  << Quot(Row(Q, 1, v), Row(Q, 4, v)),
                         Quot(0 - Row(Q, 2, v), Row(Q, 4, v)),
                         Quot(Row(Q, 3, v), Row(Q, 4, v)) >>

\* DepthCalculator.calculate_depth of stereo_usb/calib/cacul_depth.py
calculate_depth(l, r) ==
    IF l = None \/ r = None THEN None
    ELSE LET disparity == l[1] - r[1]
         IN  IF disparity <= 0 THEN None
             ELSE LET v == <<l[1], l[2], disparity, 1>>
                  IN  << Quot(Row(Q, 1, v), Row(Q, 4, v)),
                         Quot(Row(Q, 2, v), Row(Q, 4, v)),
                         Quot(Row(Q, 3, v), Row(Q, 4, v)) >>

\* calculate_3d of both trackers
calculate_3d(l, r) ==
    IF l = None \/ r = None THEN None
    ELSE LET disparity == l[1] - r[1]
         IN  IF disparity <= 0 THEN None
             ELSE LET v == <<l[1], l[2], disparity, 1>>
                  IN  << Quot(Row(Q, 1, v), Row(Q, 4, v)),
                         Quot(0 - Row(Q, 2, v), Row(Q, 4, v)),
                         Quot(Row(Q, 3, v), Row(Q, 4, v)) >>

\* DepthCalculator.calculate_depth of stereo_imx219/calib/cacul_depth.py
calculate_depth_imx219(l, r) ==
    IF l = None \/ r = None THEN None
    ELSE LET disparity == l[1] - r[1]
         IN  IF disparity <= 0 THEN None
             ELSE LET v == <<l[1], l[2], disparity, 1>>
                  IN  << Quot(Row(Q, 1, v), Row(Q, 4, v)),
                         Quot(0 - Row(Q, 2, v), Row(Q, 4, v)),
                         Quot(Row(Q, 3, v), Row(Q, 4, v)) >>

\* the routine the running depth tool triangulates with
depth_of(l, r) ==
    IF prog = "depth_usb" THEN calculate_depth(l, r)
    ELSE calculate_depth_imx219(l, r)

\* RedTrackerCSI.run: the target handed to move_to_physical
csi_target(t3) ==
    << Quot(t3[1] * calibration_depth, t3[3]) + offset_x,
       Quot(t3[2] * calibration_depth, t3[3]) + offset_y >>

\* RedTracker.run: the target handed to move_to_physical
usb_target(t3) == <<t3[1] + usb_offset_x, t3[2] + usb_offset_y>>

\* mutant: a target computed in an earlier pass is kept and used again
servo_target_stale(t3) ==
    IF target # None THEN target
    ELSE IF prog = "csi" THEN csi_target(t3) ELSE usb_target(t3)

servo_target(t3) == IF prog = "csi" THEN csi_target(t3) ELSE usb_target(t3)

\* one pass of the while loop of run, up to the first bus write or to waitKey
ServoIterate(l, r) ==
    /\ pc = "ready"
    /\ prog \in {"csi", "usb"}
    /\ iter < MaxIter
    /\ iter' = iter + 1
    /\ left_pt' = l
    /\ right_pt' = r
    /\ target_3d' = calculate_3d(l, r)
    /\ notices' = 0
    /\ nsent' = 0
    /\ op' = "servo"
    /\ old' = <<current_xv, current_yv>>
    /\ IF l # None /\ r # None /\ target_3d' # None
       THEN /\ target' = servo_target(target_3d')
            /\ req' = target'
            /\ move_to_physical(target')
       ELSE /\ target' = None
            /\ req' = <<>>
            /\ result' = "skipped"
            /\ pc' = "waitkey"
            /\ xfers' = <<>>
            /\ UNCHANGED localVars
    /\ UNCHANGED <<prog, Q, clipVars, calibVars, axisVars, dyv, dac,
                   fail_iter, key,
                   polls, position>>

\* the loop's exit: RedTrackerCSI.close / the tail of RedTracker.run
servo_close ==
    /\ Begin("close", <<0, 0>>)
    /\ result' = "running"
    /\ notices' = 0
    /\ center
    /\ UNCHANGED <<prog, Q, clipVars, calibVars, axisVars, dyv, dac,
                   fail_iter>>

\* cv2.waitKey at the end of the pass: 'q' leaves the loop
WaitKey(k) ==
    /\ pc = "waitkey"
    /\ key' = k
    /\ polls' = polls + 1
    /\ UNCHANGED passVars
    /\ IF k = "q"
       THEN servo_close
       ELSE /\ pc' = "ready"
            /\ UNCHANGED <<prog, Q, clipVars, op, result, calibVars, axisVars,
                           req, old,
                           localVars, dyv, dac, xfers, notices, fail_iter,
                           nsent, position>>

\* RedTracker.run: cap.read() returns no frame and the loop breaks
UsbReadFail ==
    /\ pc = "ready"
    /\ prog = "usb"
    /\ servo_close
    /\ UNCHANGED servoVars

\* KeyboardInterrupt while the loop waits in cv2.waitKey: neither run has a
\* handler or a finally clause, so the exception leaves run and the process
\* ends where it stands
Interrupt ==
    /\ pc = "waitkey"
    /\ prog \in {"csi", "usb"}
    /\ pc' = "aborted"
    /\ UNCHANGED <<prog, Q, clipVars, op, result, calibVars, axisVars, req,
                   old, localVars, dyv,
                   dac, xfers, notices, servoVars, fail_iter, nsent, position>>

(***************************************************************************)
(* KeyboardControl.run of galvo_control_keyboard.py.                       *)
(***************************************************************************)
\* KeyboardControl.step: 0.4 V, a value the +/- keys reach in [0.01, 0.5] V
KeyStep == 4

\* the arrow keys A (up), B (down), D (left), C (right) as steps in X and Y
Arrows == {<<0, KeyStep>>, <<0, 0 - KeyStep>>, <<0 - KeyStep, 0>>,
           <<KeyStep, 0>>}

\* an arrow key: set_voltage(current_xv + dx, current_yv + dy)
KeyArrow(d) ==
    /\ pc = "ready"
    /\ prog = "keyboard"
    /\ Begin("set_voltage", <<current_xv + d[1], current_yv + d[2]>>)
    /\ result' = "running"
    /\ notices' = 0
    /\ set_voltage(current_xv + d[1], current_yv + d[2])
    /\ UNCHANGED <<prog, Q, clipVars, calibVars, axisVars, dyv, dac,
                   servoVars, fail_iter>>

\* the key 'c'
KeyCenter ==
    /\ pc = "ready"
    /\ prog = "keyboard"
    /\ Begin("center", <<0, 0>>)
    /\ result' = "running"
    /\ notices' = 0
    /\ center
    /\ UNCHANGED <<prog, Q, clipVars, calibVars, axisVars, dyv, dac,
                   servoVars, fail_iter>>

\* the finally clause of run: self.galvo.close()
keyboard_finally ==
    /\ Begin("close", <<0, 0>>)
    /\ result' = "running"
    /\ notices' = 0
    /\ center
    /\ UNCHANGED <<prog, Q, clipVars, calibVars, axisVars, dyv, dac,
                   servoVars, fail_iter>>

\* the key 'q' breaks the loop, or KeyboardInterrupt is raised while the
\* loop waits in select: either way the finally clause runs
KeyboardLeave ==
    /\ pc = "ready"
    /\ prog = "keyboard"
    /\ keyboard_finally

\* an exception of set_voltage or center leaves the loop through finally
KeyboardFinally ==
    /\ pc = "finally"
    /\ keyboard_finally

(***************************************************************************)
(* The depth tools: DepthCalculator of calib/cacul_depth.py.  They drive   *)
(* nothing; each pass triangulates the two detections and shows the point. *)
(***************************************************************************)
DepthConstruct ==
    /\ pc = "new"
    /\ prog \in DepthProgs
    /\ op' = "init"
    /\ result' = "none"
    /\ pc' = "ready"
    /\ UNCHANGED <<prog, Q, clipVars, calibVars, axisVars, req, old,
                   localVars, dyv, dac,
                   xfers, notices, servoVars, fail_iter, nsent, position>>

\* one pass of the while loop of DepthCalculator.run
DepthPass(l, r) ==
    /\ pc = "ready"
    /\ prog \in DepthProgs
    /\ op' = "depth"
    /\ left_pt' = l
    /\ right_pt' = r
    /\ target_3d' = IF l # None /\ r # None THEN depth_of(l, r) ELSE None
    /\ result' = IF target_3d' # None THEN "measured" ELSE "skipped"
    /\ UNCHANGED <<prog, Q, clipVars, pc, calibVars, axisVars, req, old,
                   localVars, dyv,
                   dac, xfers, notices, iter, target, key, polls, fail_iter,
                   nsent, position>>

\* 'q' at cv2.waitKey, or no frame from the camera: the tool ends
DepthQuit ==
    /\ pc = "ready"
    /\ prog \in DepthProgs
    /\ pc' = "closed"
    /\ UNCHANGED <<prog, Q, clipVars, op, result, calibVars, axisVars, req,
                   old,
                   localVars, dyv, dac, xfers, notices, servoVars, fail_iter,
                   nsent, position>>

(***************************************************************************)
(* ClipSaver of sense_test/follow_moving_mosquitos.py.  A frame is its     *)
(* arrival number; a released file is the sequence of frames written to it *)
(* and what released it.                                                   *)
(***************************************************************************)
\* deque(maxlen).append(f): the oldest element falls out of a full deque
deque_append(q, maxlen, f) ==
    LET a == Append(q, f)
    IN  IF Len(a) > maxlen THEN SubSeq(a, Len(a) - maxlen + 1, Len(a)) ELSE a

\* ClipSaver.__init__
ClipSaverInit(pre_n, post_n) ==
    /\ pc = "new"
    /\ prog = "clip"
    /\ saver' = [pre |-> <<>>, maxlen |-> Max2(0, pre_n),
                 post_n |-> Max2(0, post_n), writer |-> None,
                 post_left |-> 0, clip_idx |-> 0]
    /\ pc' = "ready"
    /\ UNCHANGED <<prog, Q, clips, pushed, op, result, calibVars, axisVars,
                   req, old, localVars, dyv, dac, xfers, notices, servoVars,
                   fail_iter, nsent, position>>

\* ClipSaver.push(frame, detected, ...); opened is what isOpened() of a
\* writer created by this call returns
push(detected, opened) ==
    LET frame == Len(pushed) + 1
        left1 == IF detected THEN saver.post_n ELSE saver.post_left
        creates == detected /\ saver.writer = None
        idx1 == IF creates THEN saver.clip_idx + 1 ELSE saver.clip_idx
        has_writer == saver.writer # None \/ (creates /\ opened)
        written == Append(IF creates THEN saver.pre ELSE saver.writer, frame)
        left2 == IF has_writer /\ ~detected THEN left1 - 1 ELSE left1
        releases == has_writer /\ ~detected /\ left2 <= 0
    IN  /\ saver' = [saver EXCEPT
                        !.pre = deque_append(saver.pre, saver.maxlen, frame),
                        !.writer = IF has_writer /\ ~releases THEN written
                                   ELSE None,
                        !.post_left = IF releases THEN 0 ELSE left2,
                        !.clip_idx = idx1]
        /\ clips' = IF releases
                    THEN Append(clips, [frames |-> written, by |-> "post"])
                    ELSE clips
        /\ pushed' = Append(pushed, detected)

\* one pass of the main loop hands its frame to the saver
Push(detected) ==
    /\ pc = "ready"
    /\ prog = "clip"
    /\ Len(pushed) < MaxFrames
    /\ \E opened \in IF detected /\ saver.writer = None THEN BOOLEAN
                     ELSE {TRUE} : push(detected, opened)
    /\ UNCHANGED <<prog, Q, pc, op, result, calibVars, axisVars, req, old,
                   localVars, dyv, dac, xfers, notices, servoVars, fail_iter,
                   nsent, position>>

\* ClipSaver.close, called when the main loop has ended
ClipClose ==
    /\ pc = "ready"
    /\ prog = "clip"
    /\ IF saver.writer # None
       THEN /\ clips' = Append(clips, [frames |-> saver.writer,
                                       by |-> "close"])
            /\ saver' = [saver EXCEPT !.writer = None, !.post_left = 0]
       ELSE UNCHANGED <<saver, clips>>
    /\ pc' = "closed"
    /\ UNCHANGED <<prog, Q, pushed, op, result, calibVars, axisVars, req, old,
                   localVars, dyv, dac, xfers, notices, servoVars, fail_iter,
                   nsent, position>>

(***************************************************************************)
(* The specification.                                                      *)
(***************************************************************************)
Next ==
    \/ DriverConstruct
    \/ \E va \in DriverVolts, vb \in DriverVolts : DriverSetVoltage(va, vb)
    \/ DriverClose
    \/ WriteX
    \/ WriteY
    \/ Construct
    \/ \E x \in ReqVolts, y \in ReqVolts : SetVoltage(x, y)
    \/ Center
    \/ \E p \in PhysPts : MoveToPhysical(p)
    \/ GetPhysicalPosition
    \/ Close
    \/ CalibConstruct
    \/ \E x \in CalibReq, y \in CalibReq : CalibSetPosition(x, y)
    \/ \E d \in Steps : CalibMoveX(d)
    \/ \E d \in Steps : CalibMoveY(d)
    \/ \E dx \in Steps, dy \in Steps : CalibMoveDir(dx, dy)
    \/ MoveDirY
    \/ CalibCenter
    \/ CalibClose
    \/ \E l \in LeftPts, r \in RightPts : ServoIterate(l, r)
    \/ \E k \in Keys : WaitKey(k)
    \/ UsbReadFail
    \/ Interrupt
    \/ \E d \in Arrows : KeyArrow(d)
    \/ KeyCenter
    \/ KeyboardLeave
    \/ KeyboardFinally
    \/ DepthConstruct
    \/ \E l \in LeftPts, r \in RightPts : DepthPass(l, r)
    \/ DepthQuit
    \/ \E a \in (0 - 1)..MaxPre, b \in (0 - 1)..MaxPost : ClipSaverInit(a, b)
    \/ \E detected \in BOOLEAN : Push(detected)
    \/ ClipClose

Spec == Init /\ [][Next]_vars

TypeOK ==
    /\ prog \in Programs
    /\ pc \in {"new", "ready", "write_x", "write_y", "move_y", "waitkey",
               "finally", "closed", "crashed", "aborted"}
    /\ result \in {"none", "running", "ok", "skipped", "io_error",
                   "runtime_error", "measured"}
    /\ current_xv \in Int
    /\ current_yv \in Int
    /\ Len(xfers) <= 2
    /\ notices \in 0..2
    /\ iter \in 0..MaxIter
    /\ polls \in 0..MaxIter
    /\ nsent \in 0..4
    /\ key \in Keys \cup {"none"}
    /\ Len(pushed) <= MaxFrames
    /\ Len(clips) <= Len(pushed)
    /\ saver # None =>
          /\ Len(saver.pre) <= saver.maxlen
          /\ saver.post_left \in 0..saver.post_n
          /\ saver.clip_idx >= Len(clips)

(***************************************************************************)
(* Properties.                                                             *)
(***************************************************************************)
\* the operation in progress has returned normally after transmitting
Sent ==
    /\ result = "ok"
    /\ ~(prog = "driver" /\ op \in {"init", "close"})
    /\ op # "get_physical_position"

InRel(v) == v >= v_min - v_center /\ v <= v_max - v_center

\* C1: in both controllers the stored relative signal of each axis stays
\* within [v_min - v_center, v_max - v_center] after construction and after
\* any sequence of position operations.
C1_AxisStateInRange ==
    (prog # "driver" /\ pc # "new") => (InRel(current_xv) /\ InRel(current_yv))

\* C2: set_voltage with a request above max-center (below min-center) on an
\* axis returns normally and stores exactly max-center (min-center) on that
\* axis; each axis is clamped on its own; only a bus failure makes it raise.
C2_ClampSaturates ==
    (prog = "controller" /\ op = "set_voltage" /\ pc = "ready") =>
        /\ result \in {"ok", "io_error"}
        /\ (result = "io_error" => Len(xfers) < 2)
        /\ (result = "ok" =>
              /\ (req[1] > v_max - v_center => current_xv = v_max - v_center)
              /\ (req[1] < v_min - v_center => current_xv = v_min - v_center)
              /\ (InRel(req[1]) => current_xv = req[1])
              /\ (req[2] > v_max - v_center => current_yv = v_max - v_center)
              /\ (req[2] < v_min - v_center => current_yv = v_min - v_center)
              /\ (InRel(req[2]) => current_yv = req[2]))

C2_Witness ==
    /\ prog = "controller" /\ op = "set_voltage" /\ pc = "ready"
    /\ result = "ok"
    /\ req[1] > v_max - v_center /\ current_xv = v_max - v_center
    /\ req[2] < v_min - v_center /\ current_yv = v_min - v_center

\* C3: a request that is clamped emits exactly one clamp notice for the call,
\* and a request already in range emits none (set_voltage of the controller,
\* move_x and move_y of the calibration controller).
C3_ClampNoticeOnce ==
    /\ (prog = "controller" /\ op = "set_voltage" /\ result = "ok") =>
          notices = IF InRel(req[1]) /\ InRel(req[2]) THEN 0 ELSE 1
    /\ (prog = "calib" /\ op = "move_x" /\ result = "ok") =>
          notices = IF InRel(old[1] + req[1]) THEN 0 ELSE 1
    /\ (prog = "calib" /\ op = "move_y" /\ result = "ok") =>
          notices = IF InRel(old[2] + req[1]) THEN 0 ELSE 1

\* C4: every call that returns normally has made exactly two transfers of two
\* bytes each, the first on the X channel (selector 0011), the second on the
\* Y channel (selector 1011); the Y transfer never precedes the X transfer.
C4_TwoFramesXThenY ==
    /\ Len(xfers) <= 2
    /\ \A i \in 1..Len(xfers) :
          /\ Len(xfers[i]) = 2
          /\ xfers[i][1] \in 0..255 /\ xfers[i][2] \in 0..255
          /\ xfers[i][1] \div 16 = (IF i = 1 THEN 3 ELSE 11)
    /\ (pc = "write_x" => Len(xfers) = 0)
    /\ (pc = "write_y" => Len(xfers) = 1)
    /\ (pc = "move_y" => Len(xfers) = 2)
    /\ (Sent => Len(xfers) = 2)

C4_Witness ==
    /\ prog = "controller" /\ op = "set_voltage" /\ result = "ok"
    /\ Len(xfers) = 2
    /\ xfers[1][1] \div 16 = 3 /\ xfers[2][1] \div 16 = 11

\* C5: when the X write or the Y write of an operation raises, the stored
\* AxisState after the call equals its value before the call.
C5_StateOnlyAfterTransmit ==
    result = "io_error" => (current_xv = old[1] /\ current_yv = old[2])

\* C6: a bus failure in a servo-loop iteration is propagated out of the loop
\* and ends it; the loop never goes on after it.
C6_FailureEndsLoop == fail_iter # 0 => pc = "crashed"

Unusable(r) == ~r.present \/ r.a * r.e - r.b * r.d = 0

\* the constructor has returned an object
Constructed == op # "none" /\ ~(op = "init" /\ result \in {"running", "io_error"})

RoundedCode(v) ==
    Max2(0, Min2(4095, (2 * v * DacScaleNum + DacScaleDen) \div (2 * DacScaleDen)))

TruncOfClamped(c, v) ==
    LET vc == IF v < 0 THEN 0 ELSE IF v > 48 THEN 48 ELSE v
    IN  c * 50 <= vc * 4096 /\ vc * 4096 < (c + 1) * 50

C9_SaturatesTo4095 ==
    (prog = "driver" /\ Sent) =>
        /\ (voltage_a = 0 - 10 => dac.A = 0)
        /\ (voltage_a = 100 => dac.A = 4095)
        /\ (voltage_b = 0 - 10 => dac.B = 0)
        /\ (voltage_b = 100 => dac.B = 4095)

\* C9 as amended: -1 V encodes to 0 and 10 V encodes to 3932, the code of
\* Vmax = 4.8 V; both saturate and neither wraps.
C9_SaturatesToVmaxCode ==
    (prog = "driver" /\ Sent) =>
        /\ (voltage_a = 0 - 10 => dac.A = 0)
        /\ (voltage_a = 100 => dac.A = 3932)
        /\ (voltage_b = 0 - 10 => dac.B = 0)
        /\ (voltage_b = 100 => dac.B = 3932)
        /\ (voltage_a = 48 => dac.A = 3932)

C9_Witness ==
    /\ prog = "driver" /\ result = "ok" /\ op = "set_voltage"
    /\ voltage_a = 0 - 10 /\ dac.A = 0
    /\ voltage_b = 100 /\ dac.B = 3932

\* C10: the code is monotone non-decreasing in the voltage, inside and
\* outside [Vmin, Vmax].
C10_Monotone ==
    (prog = "driver" /\ Sent) =>
        /\ (voltage_a <= voltage_b => dac.A <= dac.B)
        /\ (voltage_b <= voltage_a => dac.B <= dac.A)

C10_Witness ==
    /\ prog = "driver" /\ result = "ok" /\ op = "set_voltage"
    /\ voltage_a = 47 /\ voltage_b = 100 /\ dac.A < dac.B

\* the code the encoder of the running program gives a voltage
CodeOf(v) == IF prog = "calib" THEN calib_voltage_to_dac(v) ELSE voltage_to_dac(v)

\* C11: for the selector s of each channel (0b0011 = 3 for X, 0b1011 = 11 for
\* Y) and every voltage, the two bytes b1, b2 of the transfer satisfy
\* b1 * 256 + b2 = s * 4096 + code, and each byte is in 0..255.
C11_FramePacksSelectorAndCode ==
    \A i \in 1..Len(xfers) :
        LET s == IF i = 1 THEN 3 ELSE 11
            v == IF i = 1 THEN voltage_a ELSE voltage_b
        IN  /\ xfers[i][1] \in 0..255
            /\ xfers[i][2] \in 0..255
            /\ xfers[i][1] * 256 + xfers[i][2] = s * 4096 + CodeOf(v)

C11_Witness ==
    /\ prog = "driver" /\ op = "set_voltage" /\ result = "ok"
    /\ voltage_a = 100 /\ xfers[1] = <<63, 92>>
    /\ voltage_b = 1 /\ xfers[2] = <<176, 81>>

\* both detections of the pass are present and leftX > rightX
PositiveDisparity ==
    left_pt # None /\ right_pt # None /\ left_pt[1] > right_pt[1]

\* C12: triangulation returns no result when either pixel is absent and for
\* every pixel pair with leftX <= rightX; it returns a point (three
\* coordinates) only when leftX > rightX.
C12_NoPointUnlessPositiveDisparity ==
    op = "servo" =>
        /\ (target_3d # None) <=> PositiveDisparity
        /\ (calculate_depth(left_pt, right_pt) # None) <=> PositiveDisparity
        /\ target_3d # None => Len(target_3d) = 3

C12_Witness ==
    /\ op = "servo" /\ iter = 2
    /\ left_pt = <<340, 240>> /\ right_pt = <<340, 240>>
    /\ target_3d = None /\ result = "skipped"

\* C13: a pass of a servo loop in which a detection is missing or the
\* disparity is not positive is skipped: it goes straight to the key poll,
\* transmits no frame, and leaves the stored AxisState and the codes latched
\* by the DAC as they were.
C13_SkippedPassHoldsPosition ==
    [][(op' = "servo" /\ iter' = iter + 1 /\ ~PositiveDisparity') =>
          /\ pc' = "waitkey"
          /\ result' = "skipped"
          /\ nsent' = 0 /\ xfers' = <<>>
          /\ dac' = dac
          /\ current_xv' = current_xv /\ current_yv' = current_yv]_vars

C13_Witness ==
    /\ op = "servo" /\ iter = 2 /\ result = "skipped" /\ pc = "waitkey"
    /\ left_pt = None /\ right_pt # None
    /\ nsent = 0
    /\ current_xv # 0 /\ dac.A # voltage_to_dac(v_center)

\* C14: a pass whose triangulated depth Z is <= 0 is treated as invalid and
\* skipped: no target is computed from it, no frame is transmitted and the
\* stored AxisState is unchanged.
C14_NonPositiveDepthSkipped ==
    (op = "servo" /\ target_3d # None /\ target_3d[3] <= 0) =>
        /\ result = "skipped"
        /\ target = None
        /\ nsent = 0
        /\ current_xv = old[1] /\ current_yv = old[2]

\* the additive offsets of the running loop
LoopOffset == IF prog = "csi" THEN <<offset_x, offset_y>>
              ELSE <<usb_offset_x, usb_offset_y>>

\* C15: in every pass that commands the actuator, in the CSI and in the USB
\* loop, the target handed to move_to_physical is
\* (X * D_cal / Z + offset_x, Y * D_cal / Z + offset_y) for the triangulated
\* (X, Y, Z); at D_cal = 1000 mm and Z = 500 mm the XY scale factor is 2.
C15_TargetDepthScaled ==
    (op = "servo" /\ target # None) =>
        /\ target[1] = Quot(target_3d[1] * calibration_depth, target_3d[3])
                           + LoopOffset[1]
        /\ target[2] = Quot(target_3d[2] * calibration_depth, target_3d[3])
                           + LoopOffset[2]
        /\ (target_3d[3] = 500 =>
               /\ target[1] - LoopOffset[1] = 2 * target_3d[1]
               /\ target[2] - LoopOffset[2] = 2 * target_3d[2])

\* drive points of the round trip: the requests, clamped or not
DrivePts == ReqVolts \X ReqVolts

\* C16: with a non-singular affine model loaded, to_physical(to_drive(p)) = p
\* for every physical point p and to_drive(to_physical(d)) = d for every
\* drive point d, in range or not: the transform itself never clamps.  What
\* get_physical_position returns maps back to the stored AxisState.
C16_RoundTrip ==
    (prog = "controller" /\ affine_loaded) =>
        /\ \A p \in PhysPts : to_physical(to_drive(p)) = p
        /\ \A d \in DrivePts : to_drive(to_physical(d)) = d
        /\ op = "move_to_physical" => to_physical(to_drive(req)) = req
        /\ (op = "get_physical_position" /\ result = "ok") =>
              to_drive(position) = <<current_xv, current_yv>>

C16_Witness ==
    /\ prog = "controller" /\ affine_loaded
    /\ record = Rec(2, 1, 100, 1, 1, 50)
    /\ op = "get_physical_position" /\ result = "ok"
    /\ <<current_xv, current_yv>> = <<15, 0 - 20>>
    /\ position = <<110, 45>>
    /\ to_drive(<<160, 50>>)[1] > v_max - v_center

\* C17: the clamp of set_voltage is idempotent, and the identity on a
\* relative signal already in [min-center, max-center]; hence set_voltage
\* called with the stored AxisState leaves the stored AxisState as it was.
C17_ClampIdempotent ==
    (prog = "controller" /\ op = "set_voltage") =>
        /\ \A i \in 1..2 :
              /\ ClampRel(ClampRel(req[i])) = ClampRel(req[i])
              /\ InRel(req[i]) => ClampRel(req[i]) = req[i]
        /\ xv = ClampRel(xv) /\ yv = ClampRel(yv)
        /\ (result = "ok" /\ req = old) =>
              <<current_xv, current_yv>> = old

C17_Witness ==
    /\ prog = "controller" /\ op = "set_voltage" /\ result = "ok"
    /\ old = <<0 - 7, xv_max>> /\ req = old
    /\ <<current_xv, current_yv>> = old
    /\ nsent = 2

\* the clamp move_x / move_y apply to the stored signal of an axis
CalibClamp(v) == Max2(xv_min, Min2(xv_max, v))

\* the steps a move of the calibration controller asks for, per axis
MoveDelta ==
    CASE op = "move_x" -> <<req[1], 0>>
      [] op = "move_y" -> <<0, req[1]>>
      [] OTHER -> <<req[1], req[2]>>

\* C18: a move by (dx, dy) adds the steps to the stored signals, clamps each
\* moved axis (with a boundary notice exactly when an axis was clamped) and
\* delegates to a single set_position: once it has returned, the stored
\* state is clamp(old + step) on each moved axis and exactly one frame per
\* axis has been transmitted.
C18_MoveBySingleSetPosition ==
    (prog = "calib" /\ op \in {"move_x", "move_y", "move_dir"}
        /\ result = "ok") =>
        /\ nsent = 2
        /\ op # "move_y" => current_xv = CalibClamp(old[1] + MoveDelta[1])
        /\ op # "move_x" => current_yv = CalibClamp(old[2] + MoveDelta[2])
        /\ (notices > 0) <=>
              \/ op # "move_y" /\ ~InRel(old[1] + MoveDelta[1])
              \/ op # "move_x" /\ ~InRel(old[2] + MoveDelta[2])

\* the target the running loop computes from the detections of this pass
TargetOfPass ==
    IF prog = "csi" THEN csi_target(calculate_3d(left_pt, right_pt))
    ELSE usb_target(calculate_3d(left_pt, right_pt))

\* the AxisState a commanded pass stores, from the detections of this pass
AxisOfPass ==
    << ClampRel(to_drive(TargetOfPass)[1]), ClampRel(to_drive(TargetOfPass)[2]) >>

\* the frames a commanded pass issues, from the detections of this pass
FramesOfPass ==
    << write_dac(channel_a, v_center + AxisOfPass[1] * direction_x),
       write_dac(channel_b, v_center + AxisOfPass[2] * direction_y) >>

\* the AxisState with which a run without history (the controller just
\* constructed and centred) ends a pass with the detections of this pass
FreshEnd ==
    IF affine_loaded /\ PositiveDisparity THEN AxisOfPass ELSE <<0, 0>>

\* C19 as stated: the AxisState at the end of a pass depends on the
\* detections of that pass only, whatever the history: every run ends the
\* pass with the AxisState a run without history ends it with.
C19_EndStateFromDetectionsOnly ==
    (op = "servo" /\ pc = "waitkey" /\ result # "io_error") =>
        <<current_xv, current_yv>> = FreshEnd

\* C19 as amended: a pass that commands the actuator issues frames and
\* stores an AxisState that are functions of the detections of that pass
\* only, and no target of an earlier pass is reused; a pass that is skipped
\* or whose move fails issues no complete frame pair and ends with the
\* AxisState it began with, which is the history's.
C19_CommandedPassFromDetectionsOnly ==
    (op = "servo" /\ pc = "waitkey") =>
        /\ target = IF PositiveDisparity THEN TargetOfPass ELSE None
        /\ result = "ok" =>
              /\ <<current_xv, current_yv>> = AxisOfPass
              /\ xfers = FramesOfPass
        /\ result # "ok" =>
              /\ <<current_xv, current_yv>> = old
              /\ nsent < 2

C19_Witness ==
    /\ prog = "csi" /\ op = "servo" /\ pc = "waitkey" /\ iter = 2
    /\ result = "ok"
    /\ old = <<xv_max, 0>>
    /\ left_pt = <<322, 238>> /\ right_pt = <<320, 238>>
    /\ <<current_xv, current_yv>> = <<4, 4>>

\* C20: the stop key is examined exactly once per pass, at its end: a poll
\* happens only at the key poll and brings the polls level with the passes
\* begun, and no pass begins before the previous one was polled; the loop
\* leaves on the stop key only from the key poll, where the steps of the pass
\* (triangulation, transform, X write, Y write) have run to their end; and
\* once the stop key was seen no further pass begins.
C20_CooperativeCancel ==
    [][/\ polls' # polls =>
             (pc = "waitkey" /\ polls' = polls + 1 /\ polls' = iter)
       /\ iter' # iter => (polls = iter /\ key # "q")
       /\ (key' = "q" /\ key # "q") =>
             /\ pc = "waitkey" /\ op = "servo" /\ op' = "close"
             /\ result # "running"
             /\ result = "ok" => nsent = 2
       /\ key = "q" => (key' = "q" /\ iter' = iter /\ polls' = polls)]_vars

C20_Witness ==
    /\ prog = "csi" /\ key = "q" /\ op = "close" /\ pc = "closed"
    /\ iter = 2 /\ polls = 2
    /\ target # None

\* the pass just made met a per-frame condition: it was skipped (a detection
\* absent or the triangulation invalid), or its request was clamped
PerFrameCondition ==
    /\ op = "servo"
    /\ \/ result = "skipped"
       \/ /\ result = "ok"
          /\ ~(InRel(to_drive(target)[1]) /\ InRel(to_drive(target)[2]))

\* C21: a per-frame condition never ends the loop: the pass reaches the key
\* poll; unless the stop key is read there (or the operator interrupts the
\* process) the loop returns to its top; and
\* from the top the next pass begins (bounded by MaxIter here), the only
\* other step being the USB loop's exit on a camera read failure.
C21_PerFrameConditionsAbsorbed ==
    [][/\ PerFrameCondition' => pc' \in {"waitkey", "ready", "aborted"}
       /\ (PerFrameCondition /\ pc = "waitkey") =>
             \/ key' = "q"
             \/ pc' = "aborted"
             \/ (pc' = "ready" /\ PerFrameCondition')
       /\ (PerFrameCondition /\ pc = "ready") =>
             /\ iter < MaxIter => ENABLED (\E l \in LeftPts, r \in RightPts :
                                              ServoIterate(l, r))
             /\ iter' = iter + 1 \/ (prog = "usb" /\ op' = "close")]_vars

C21_Witness ==
    /\ prog = "csi" /\ op = "servo" /\ iter = 2 /\ polls = 2 /\ pc = "ready"
    /\ result = "skipped"
    /\ old[1] = xv_max

\* the X frame of the call was transferred and its Y frame was not
XOnly == Len(xfers) = 1

\* C22: the two writes of one call are not atomic.  Once the X frame is
\* transferred the X output holds the new code while the Y output keeps the
\* code it had; that mixed state exists only between the two writes of a
\* call or after its Y write failed (the driver's close sends nothing and
\* leaves it), and a call that returned normally has loaded both outputs
\* with the codes of its two voltages.
C22_MixedOnlyBetweenWrites ==
    [][/\ XOnly' => (dac'.A = CodeOf(voltage_a') /\ dac'.B = dac.B)
       /\ XOnly' => \/ pc' = "write_y"
                     \/ result' = "io_error"
                     \/ (prog = "driver" /\ op = "set_voltage"
                            /\ result = "io_error" /\ op' = "close")
       /\ (XOnly /\ xfers' = xfers) => dac' = dac
       /\ Sent' => /\ Len(xfers') = 2
                   /\ dac'.A = CodeOf(voltage_a')
                   /\ dac'.B = CodeOf(voltage_b')]_vars

C22_Witness ==
    /\ prog = "controller" /\ op = "set_voltage" /\ pc = "ready"
    /\ result = "io_error" /\ XOnly
    /\ dac.A = voltage_to_dac(voltage_a)
    /\ dac.A # voltage_to_dac(v_center + old[1] * direction_x)
    /\ dac.B = voltage_to_dac(v_center + old[2] * direction_y)
    /\ dac.B # voltage_to_dac(voltage_b)

\* the code c is what the absolute voltage v (decivolts) converts to:
\* c = floor(v * 4096 / 50)
Encodes(c, v) == c * DacScaleDen <= v * DacScaleNum
                 /\ v * DacScaleNum < (c + 1) * DacScaleDen

\* C23: after every set_voltage / set_position call that returns normally
\* the code last loaded on the X channel is that of
\* v_center + current_xv * direction_x and the code last loaded on the Y
\* channel that of v_center + current_yv * direction_y: the stored AxisState
\* and the hardware agree at call boundaries, in both controllers.
C23_StateAgreesWithHardware ==
    (Sent /\ prog # "driver") =>
        /\ Encodes(dac.A, v_center + current_xv * direction_x)
        /\ Encodes(dac.B, v_center + current_yv * direction_y)

\* Q * [leftX, leftY, d, 1] for the detections of the pass
Reprojected ==
    LET v == <<left_pt[1], left_pt[2], left_pt[1] - right_pt[1], 1>>
    IN  <<Row(Q, 1, v), Row(Q, 2, v), Row(Q, 3, v), Row(Q, 4, v)>>

\* C24: every triangulation routine, for a positive disparity, returns
\* (P0 / W, -P1 / W, P2 / W) with [P0, P1, P2, W] = Q * [leftX, leftY, d, 1]:
\* normalised by W, the vertical component with its sign flipped.
C24_NormalisedAndFlipped ==
    (op \in {"servo", "depth"} /\ target_3d # None) =>
        target_3d = << Quot(Reprojected[1], Reprojected[4]),
                       Quot(0 - Reprojected[2], Reprojected[4]),
                       Quot(Reprojected[3], Reprojected[4]) >>

\* the fit the record on disk was written from
FitOfRecord ==
    CHOOSE fit \in Fits : record = affine_params(fit[1], fit[2])

\* the forward map of a fit: px = a*xv + b*yv + c, py = d*xv + e*yv + f
FitMap(fit, v) ==
    << fit[1][1] * v[1] + fit[1][2] * v[2] + fit[1][3],
       fit[2][1] * v[1] + fit[2][2] * v[2] + fit[2][3] >>

\* C25: the record written for a fit and loaded by the controller gives, for
\* every drive signal, the physical point the fit gives: X = a*xv + b*yv + c
\* and Y = d*xv + e*yv + f with the solver's six coefficients, none of them
\* transposed or swapped, also in what get_physical_position returns.
C25_RecordRoundTrip ==
    (prog \in ControllerProgs /\ affine_loaded) =>
        /\ \A v \in DrivePts : to_physical(v) = FitMap(FitOfRecord, v)
        /\ (op = "get_physical_position" /\ result = "ok") =>
              position = FitMap(FitOfRecord, <<current_xv, current_yv>>)

C25_Witness ==
    /\ prog = "controller" /\ affine_loaded
    /\ FitOfRecord = <<<<1, 1, 100>>, <<0, 1, 50>>>>
    /\ op = "get_physical_position" /\ result = "ok"
    /\ <<current_xv, current_yv>> = <<15, 0 - 5>>
    /\ position = <<110, 45>>

\* the 16-character string write_dac builds for a channel and a voltage
DataWord(channel, v) == channel \o zfill(bin(voltage_to_dac(v)), 12)

\* C26: every absolute voltage set_voltage of the controller hands to the
\* driver lies in [v_min, v_max], for the axis of direction -1 and for the
\* axis of direction +1: the driver's clamp leaves it as it is, its code is
\* in 0..3932 and has at most 12 binary digits, and the selector and the
\* code together are exactly 16 bits.
C26_DriverInputsInRange ==
    (prog \in ControllerProgs /\ op # "none") =>
        /\ voltage_a = v_center + xv * direction_x
        /\ voltage_b = v_center + yv * direction_y
        /\ \A v \in {voltage_a, voltage_b} :
              /\ v_min <= v /\ v <= v_max
              /\ Max2(v_min, Min2(v_max, v)) = v
              /\ voltage_to_dac(v) \in 0..3932
              /\ Len(bin(voltage_to_dac(v))) <= 12
        /\ Len(DataWord(channel_a, voltage_a)) = 16
        /\ Len(DataWord(channel_b, voltage_b)) = 16

C26_Witness ==
    /\ prog = "controller" /\ op = "set_voltage" /\ result = "ok"
    /\ req[1] < xv_min /\ voltage_a = v_max /\ dac.A = 3932
    /\ req[2] < yv_min /\ voltage_b = v_min /\ dac.B = 0

\* C27: with no affine model loaded (record missing, unreadable or
\* singular) move_to_physical and get_physical_position raise RuntimeError,
\* transmit no frame and leave the stored AxisState as it was, while
\* set_voltage and center go on working: they clamp, transmit both frames
\* and store the clamped request unless the bus fails.
C27_DegradedController ==
    (prog = "controller" /\ ~affine_loaded) =>
        /\ op \in {"move_to_physical", "get_physical_position"} =>
              /\ result = "runtime_error"
              /\ pc = "ready"
              /\ nsent = 0 /\ xfers = <<>>
              /\ position = None
              /\ <<current_xv, current_yv>> = old
        /\ (op \in {"set_voltage", "center"} /\ pc = "ready") =>
              /\ result \in {"ok", "io_error"}
              /\ result = "io_error" => nsent < 2
              /\ result = "ok" =>
                    /\ nsent = 2
                    /\ current_xv = ClampRel(req[1])
                    /\ current_yv = ClampRel(req[2])

C27_Witness ==
    /\ prog = "controller" /\ ~affine_loaded
    /\ record.present /\ Unusable(record)
    /\ op = "get_physical_position" /\ result = "runtime_error"
    /\ <<current_xv, current_yv>> = <<0 - 7, xv_max>>
    /\ dac.B = 3932


\* the places where a program has ended
Ended == {"closed", "crashed", "aborted"}

\* the loops that own a GalvoController: the two servo loops and the
\* keyboard loop
LoopProgs == {"csi", "usb", "keyboard"}

\* C28: shutdown ordering.  The bus of a controller is closed only by close,
\* after close has transferred one X frame and one Y frame of the centre
\* voltage and stored (0, 0); once the bus is closed no frame is written;
\* and a servo or keyboard loop, once constructed, ends only inside close.
C28_CloseOnEveryExit ==
    [][/\ (prog \in ControllerProgs /\ pc' = "closed" /\ pc # "closed") =>
             /\ op' = "close"
             /\ xfers' = <<Frame(channel_a, CodeOf(v_center)),
                           Frame(channel_b, CodeOf(v_center))>>
             /\ nsent' = 2
             /\ dac' = [A |-> CodeOf(v_center), B |-> CodeOf(v_center)]
             /\ <<current_xv', current_yv'>> = <<0, 0>>
       /\ pc = "closed" => UNCHANGED <<dac, xfers, nsent>>
       /\ (prog \in LoopProgs /\ pc' \in Ended /\ pc \notin Ended
              /\ op' # "init") => op' = "close"]_vars

\* the same with the exit the servo loops take on KeyboardInterrupt left out
C28_CloseOnEveryHandledExit ==
    [][/\ (prog \in ControllerProgs /\ pc' = "closed" /\ pc # "closed") =>
             /\ op' = "close"
             /\ xfers' = <<Frame(channel_a, CodeOf(v_center)),
                           Frame(channel_b, CodeOf(v_center))>>
             /\ nsent' = 2
             /\ dac' = [A |-> CodeOf(v_center), B |-> CodeOf(v_center)]
             /\ <<current_xv', current_yv'>> = <<0, 0>>
       /\ pc = "closed" => UNCHANGED <<dac, xfers, nsent>>
       /\ (prog \in LoopProgs /\ pc' \in Ended \ {"aborted"} /\ pc \notin Ended
              /\ op' # "init") => op' = "close"
       /\ (prog = "keyboard" /\ pc' = "aborted") => FALSE]_vars


\* the two frames of the centre voltage, X first
CentreFrames ==
    <<Frame(channel_a, voltage_to_dac(v_center)),
      Frame(channel_b, voltage_to_dac(v_center))>>

\* the call in progress is center(), or set_voltage(0, 0)
CentringCall ==
    /\ prog \in ControllerProgs
    /\ op = "center" \/ (op = "set_voltage" /\ req = <<0, 0>>)

\* C29: when the constructor of GalvoController returns, the record usable
\* or not, exactly the X frame and the Y frame of 2.4 V were transferred,
\* both outputs hold its code and the stored state is (0, 0); and center()
\* behaves as set_voltage(0, 0) does: the same locals while the call runs,
\* the same frames in the same order, the same state after it.
C29_ConstructionCentres ==
    /\ (prog \in ControllerProgs /\ op = "init") =>
          /\ nsent <= 2
          /\ xfers = SubSeq(CentreFrames, 1, nsent)
          /\ <<current_xv, current_yv>> = <<0, 0>>
          /\ affine_loaded = ~Unusable(record)
          /\ result = "ok" =>
                /\ nsent = 2
                /\ dac = [A |-> voltage_to_dac(v_center),
                          B |-> voltage_to_dac(v_center)]
    /\ CentringCall =>
          /\ <<xv, yv>> = <<0, 0>>
          /\ <<voltage_a, voltage_b>> = <<v_center, v_center>>
          /\ notices = 0
          /\ xfers = SubSeq(CentreFrames, 1, nsent)
          /\ result = "ok" =>
                /\ nsent = 2
                /\ <<current_xv, current_yv>> = <<0, 0>>
                /\ dac = [A |-> voltage_to_dac(v_center),
                          B |-> voltage_to_dac(v_center)]
          /\ result = "io_error" =>
                /\ nsent < 2
                /\ <<current_xv, current_yv>> = old

\* a controller constructed without a usable record is centred again from
\* the corner of the range
C29_Witness ==
    /\ prog = "controller" /\ ~affine_loaded
    /\ op = "center" /\ result = "ok" /\ pc = "ready"
    /\ old = <<xv_max, 0 - 7>>
    /\ xfers = CentreFrames
    /\ <<current_xv, current_yv>> = <<0, 0>>


\* positions in the file c of the frames that were pushed as detected
DetectedIn(c) == {k \in 1..Len(c.frames) : pushed[c.frames[k]]}

FirstDetected(c) == CHOOSE k \in DetectedIn(c) : \A j \in DetectedIn(c) : k <= j
LastDetected(c) == CHOOSE k \in DetectedIn(c) : \A j \in DetectedIn(c) : j <= k

\* the file c holds consecutive frames in arrival order: at most maxlen
\* before its first detected frame, every frame from there to its last
\* detected frame, and after it exactly tail frames when the post count
\* released the file, not more than post_n when close did
ClipShape(c, tail) ==
    /\ DetectedIn(c) # {}
    /\ \A k \in 1..(Len(c.frames) - 1) : c.frames[k + 1] = c.frames[k] + 1
    /\ FirstDetected(c) - 1 <= saver.maxlen
    /\ c.by = "post" => Len(c.frames) - LastDetected(c) = tail
    /\ c.by = "close" => Len(c.frames) - LastDetected(c) <= saver.post_n

\* a detected frame pushed while a file is open is appended to that file,
\* and no file is created or released
ExtendsOpenClip ==
    (prog = "clip" /\ pc = "ready" /\ saver.writer # None
        /\ pushed' = Append(pushed, TRUE)) =>
       /\ saver'.writer = Append(saver.writer, Len(pushed'))
       /\ saver'.clip_idx = saver.clip_idx
       /\ clips' = clips

\* C30: every released clip is at most pre_n frames, then every frame from
\* its first to its last detected frame, then exactly post_n frames without
\* a detection (fewer only when close released it), consecutive and in
\* arrival order; the writer is closed when a clip is released; and a
\* detection that arrives while a clip is open extends that clip.
C30_ClipShapeAsStated ==
    [][/\ prog = "clip" =>
             \A i \in 1..Len(clips') : ClipShape(clips[i], saver.post_n)'
       /\ clips' # clips => saver'.writer = None
       /\ ExtendsOpenClip]_vars

\* the same with the tail the code writes: one frame when post_n is 0
C30_ClipShapeOfCode ==
    [][/\ prog = "clip" =>
             \A i \in 1..Len(clips') :
                 ClipShape(clips[i], Max2(1, saver.post_n))'
       /\ clips' # clips => saver'.writer = None
       /\ ExtendsOpenClip]_vars

====
